---- MODULE Spec2Model ----
(***************************************************************************)
(* The conditional k-nearest-neighbour matching notebook: the category     *)
(* cell, the two ConditionalKNN fits, add_matches, plot_img / plot_urls,   *)
(* test_all and the demo cell that calls it; and, from the regression      *)
(* notebook of the same file, the cells that load and split the housing    *)
(* data, fit the three regressors and build the table `results`.           *)
(*                                                                         *)
(* A DataFrame is a record [cols, rows]: cols is the sequence of column    *)
(* names (Spark allows a name to occur twice), rows the sequence of rows,  *)
(* each row the sequence of its values in column order.                    *)
(***************************************************************************)
EXTENDS Naturals, Integers, Sequences, FiniteSets, TLC

\* ---------------------------------------------------------------- bounds
NumEntities == 3        \* rows of the dataset df
MaxClasses == 2         \* longest list of mediums / of cultures
MaxRuns == 2            \* how often the demo cell is executed
K == 2                  \* neighbours returned per request (the index's k)
NumHouses == 2          \* rows of the housing dataset

Ids == 1..NumEntities
Coords == {0, 1}        \* embeddings are points on a line

MediumVocab == {"paintings", "various"}   \* values of Classification
CultureVocab == {"japanese", "various"}   \* values of Culture

\* ------------------------------------------------------------- DataFrames
BaseCols == <<"id", "Thumbnail_Url", "Culture", "Classification", "Norm_Features">>

Thumbnail(i) == "thumb" \o ToString(i)

EmptyFrame == [cols |-> <<>>, rows |-> <<>>]

\* position of the first column called name, 0 when there is none
ColIndex(cols, name) ==
  IF \E p \in 1..Len(cols) : cols[p] = name
  THEN CHOOSE p \in 1..Len(cols) :
         cols[p] = name /\ \A q \in 1..(p - 1) : cols[q] # name
  ELSE 0

\* row[name] of a collected Row: the first field of that name
Field(cols, row, name) == row[ColIndex(cols, name)]

\* DataFrame.withColumn: replaces every column of that name, else appends
withColumn(frame, name, vals) ==
  IF ColIndex(frame.cols, name) # 0
  THEN [cols |-> frame.cols,
        rows |-> [r \in 1..Len(frame.rows) |->
                   [p \in 1..Len(frame.cols) |->
                     IF frame.cols[p] = name THEN vals[r] ELSE frame.rows[r][p]]]]
  ELSE [cols |-> Append(frame.cols, name),
        rows |-> [r \in 1..Len(frame.rows) |-> Append(frame.rows[r], vals[r])]]

\* DataFrame.withColumnRenamed: renames every column called old
withColumnRenamed(frame, old, new) ==
  [cols |-> [p \in 1..Len(frame.cols) |->
              IF frame.cols[p] = old THEN new ELSE frame.cols[p]],
   rows |-> frame.rows]

\* "Matches_{}".format(label)
MatchesCol(label) == "Matches_" \o label

\* ------------------------------------------------- the category cell
\* small_df = df.where(medium in medium_set or culture in culture_set
\*                     or id in selected_ids)
SmallDf(frame, ms, cs, ids) ==
  [cols |-> frame.cols,
   rows |-> SelectSeq(frame.rows, LAMBDA row :
      \/ Field(frame.cols, row, "Classification") \in {ms[p] : p \in 1..Len(ms)}
      \/ Field(frame.cols, row, "Culture") \in {cs[p] : p \in 1..Len(cs)}
      \/ Field(frame.cols, row, "id") \in ids)]

\* ------------------------------------------------- ConditionalKNN
Dist(a, b) == IF a >= b THEN a - b ELSE b - a

\* ConditionalKNN().setFeaturesCol("Norm_Features").setValuesCol("Thumbnail_Url")
\*   .setLabelCol(labelCol).fit(frame): one index entry per row, in row order
Fit(frame, labelCol) ==
  [labelCol |-> labelCol,
   index |-> [r \in 1..Len(frame.rows) |->
               [features |-> Field(frame.cols, frame.rows[r], "Norm_Features"),
                value |-> Field(frame.cols, frame.rows[r], "Thumbnail_Url"),
                label |-> Field(frame.cols, frame.rows[r], labelCol)]]]

Unfitted == [labelCol |-> "", index |-> <<>>]

\* the k nearest index entries among cand, nearest first; equal distances
\* in index order
RECURSIVE NearestK(_, _, _, _)
NearestK(index, cand, q, k) ==
  IF k = 0 \/ cand = {} THEN <<>>
  ELSE LET best == CHOOSE p \in cand : \A o \in cand :
                     \/ Dist(q, index[p].features) < Dist(q, index[o].features)
                     \/ /\ Dist(q, index[p].features) = Dist(q, index[o].features)
                        /\ p <= o
       IN <<[value |-> index[best].value,
             distance |-> Dist(q, index[best].features),
             label |-> index[best].label]>>
          \o NearestK(index, cand \ {best}, q, k - 1)

\* a query that does not cut its result off at k
Query_NoLimit(cknn, q, conditioner, k) ==
  NearestK(cknn.index,
           {p \in 1..Len(cknn.index) : cknn.index[p].label \in conditioner},
           q, Len(cknn.index))

\* Query(index, query embedding, condition values, k)
Query(cknn, q, conditioner, k) ==
  NearestK(cknn.index,
           {p \in 1..Len(cknn.index) : cknn.index[p].label \in conditioner},
           q, k)

\* ConditionalKNNModel.transform: appends the output column "Matches", the
\* query of each row's features under the row's conditioner
transform(cknn, frame) ==
  withColumn(frame, "Matches",
    [r \in 1..Len(frame.rows) |->
      Query(cknn,
            Field(frame.cols, frame.rows[r], "Norm_Features"),
            Field(frame.cols, frame.rows[r], "conditioner"),
            K)])

\* ------------------------------------------------- add_matches
\* a loop body that sets the conditioner only while the frame has none, so
\* every later pass queries under the first label
AddMatchesIter_StaleConditioner(label, cknn, results) ==
  withColumnRenamed(
    transform(cknn,
      IF ColIndex(results.cols, "conditioner") # 0 THEN results
      ELSE withColumn(results, "conditioner",
             [r \in 1..Len(results.rows) |-> {label}])),
    "Matches", MatchesCol(label))

\* a loop body that falls back to the unconditioned query when the label
\* has no match
AddMatchesIter_FallbackUnconditioned(label, cknn, results) ==
  LET everyLabel == {cknn.index[p].label : p \in 1..Len(cknn.index)}
  IN withColumnRenamed(
       transform(cknn,
         withColumn(results, "conditioner",
           [r \in 1..Len(results.rows) |->
             IF label \in everyLabel THEN {label} ELSE everyLabel])),
       "Matches", MatchesCol(label))

\* a loop body that keeps only the rows that found a match
AddMatchesIter_DropUnmatched(label, cknn, results) ==
  LET out == withColumnRenamed(
               transform(cknn,
                 withColumn(results, "conditioner",
                   [r \in 1..Len(results.rows) |-> {label}])),
               "Matches", MatchesCol(label))
  IN [cols |-> out.cols,
      rows |-> SelectSeq(out.rows, LAMBDA row : row[Len(row)] # <<>>)]

\* one pass of the loop body: array(lit(label)) is the conditioner of every
\* row, the model's output column is renamed after the label
AddMatchesIter(label, cknn, results) ==
  withColumnRenamed(
    transform(cknn,
      withColumn(results, "conditioner",
        [r \in 1..Len(results.rows) |-> {label}])),
    "Matches", MatchesCol(label))

\* a loop over set(classes): a label that occurs again adds no column
RECURSIVE AddMatchesFrom_SkipRepeated(_, _, _, _)
AddMatchesFrom_SkipRepeated(n, classes, cknn, results) ==
  IF n > Len(classes) THEN results
  ELSE AddMatchesFrom_SkipRepeated(n + 1, classes, cknn,
         IF \E m \in 1..(n - 1) : classes[m] = classes[n] THEN results
         ELSE AddMatchesIter(classes[n], cknn, results))

RECURSIVE AddMatchesFrom(_, _, _, _)
AddMatchesFrom(n, classes, cknn, results) ==
  IF n > Len(classes) THEN results
  ELSE AddMatchesFrom(n + 1, classes, cknn,
                      AddMatchesIter(classes[n], cknn, results))

add_matches(classes, cknn, frame) == AddMatchesFrom(1, classes, cknn, frame)

\* ------------------------------------------------- state
VARIABLES
  df,                 \* the dataset read from parquet
  mediums, cultures,  \* the lists of the category cell
  selected_ids,       \* the ids of the category cell
  small_df,           \* the filtered dataset
  medium_cknn, culture_cknn,   \* the fitted models
  fits,               \* how often each label column has been fitted
  pc,                 \* the notebook's position
  runs,               \* executions of the demo cell so far
  test_df,            \* test_all: the rows of data whose id is in test_ids
  results_df_medium,  \* test_all: the frame after add_matches(mediums, ...)
  results_df_culture, \* test_all: the frame after add_matches(cultures, ...)
  grid,               \* test_all: the grid in hand, "culture" or "medium"
  url_arr, titles,    \* plot_urls: its arguments
  axes,               \* plot_urls: the axes array after the reshape
  i, j,               \* plot_urls: the loop indices (from 1)
  fetched,            \* requests.get calls of this run, in order
  drawn,              \* cells drawn in this run, in order
  saved,              \* savefig calls of this run, in order
  error,              \* the exception that ended this run, "none" if none
  raised_in,          \* the function that raised it
  returned,           \* whether this run returned its frame
  result_df,          \* the notebook variable the demo cell assigns
  prev_matched,       \* results_df_culture of the run before this one
  reg_pc,             \* the regression notebook's position
  california_df,      \* its df: the housing data, one row per house
  train_data, test_data,          \* the two parts of randomSplit
  lr_train_data, lr_test_data,    \* the parts after the VectorAssembler
  lr_model, lr_predictions,
  results,            \* the comparison table
  vw_train_data, vw_test_data,    \* the parts after the VW featurizer
  vw_model, vw_predictions,
  lg_model, lg_predictions

vars == <<df, mediums, cultures, selected_ids, small_df, medium_cknn,
          culture_cknn, fits, pc, runs, test_df, results_df_medium,
          results_df_culture, grid, url_arr, titles, axes, i, j, fetched,
          drawn, saved, error, raised_in, returned, result_df, prev_matched,
          reg_pc, california_df, train_data, test_data, lr_train_data,
          lr_test_data, lr_model, lr_predictions, results, vw_train_data,
          vw_test_data, vw_model, vw_predictions, lg_model, lg_predictions>>

inputs == <<df, mediums, cultures, selected_ids, small_df>>
models == <<medium_cknn, culture_cknn, fits>>
frames == <<test_df, results_df_medium, results_df_culture>>
plot == <<url_arr, titles, axes, i, j>>
regression == <<reg_pc, california_df, train_data, test_data, lr_train_data,
                lr_test_data, lr_model, lr_predictions, results,
                vw_train_data, vw_test_data, vw_model, vw_predictions,
                lg_model, lg_predictions>>
matching == <<inputs, models, pc, runs, frames, grid, plot, fetched, drawn,
              saved, error, raised_in, returned, result_df, prev_matched>>

\* the regression notebook before its first cell: nothing is defined yet
NotRun ==
  /\ reg_pc = "load"
  /\ california_df = <<>>
  /\ train_data = <<>>
  /\ test_data = <<>>
  /\ lr_train_data = <<>>
  /\ lr_test_data = <<>>
  /\ lr_model = <<>>
  /\ lr_predictions = <<>>
  /\ results = <<>>
  /\ vw_train_data = <<>>
  /\ vw_test_data = <<>>
  /\ vw_model = <<>>
  /\ vw_predictions = <<>>
  /\ lg_model = <<>>
  /\ lg_predictions = <<>>

\* ------------------------------------------------- inputs
RECURSIVE SeqsUpTo(_, _)
SeqsUpTo(S, n) ==
  IF n = 0 THEN {<<>>}
  ELSE LET shorter == SeqsUpTo(S, n - 1)
       IN shorter \cup {Append(s, x) : s \in shorter, x \in S}

MakeFrame(emb, medium, culture) ==
  [cols |-> BaseCols,
   rows |-> [r \in Ids |-> <<r, Thumbnail(r), culture[r], medium[r], emb[r]>>]]

\* every placing of the embeddings and of one label column; the other
\* label column, which the index of the first never reads, is constant
MediumDatasets ==
  {MakeFrame(e, m, [r \in Ids |-> "japanese"]) :
     e \in [Ids -> Coords], m \in [Ids -> MediumVocab]}

CultureDatasets ==
  {MakeFrame(e, [r \in Ids |-> "paintings"], c) :
     e \in [Ids -> Coords], c \in [Ids -> CultureVocab]}

InitFrom(datasets, mediumLists, cultureLists, idSets) ==
  /\ df \in datasets
  /\ mediums \in mediumLists
  /\ cultures \in cultureLists
  /\ selected_ids \in idSets
  /\ small_df = SmallDf(df, mediums, cultures, selected_ids)
  /\ medium_cknn = Unfitted
  /\ culture_cknn = Unfitted
  /\ fits = [Classification |-> 0, Culture |-> 0]
  /\ pc = "fit_medium"
  /\ runs = 0
  /\ test_df = EmptyFrame
  /\ results_df_medium = EmptyFrame
  /\ results_df_culture = EmptyFrame
  /\ grid = "none"
  /\ url_arr = <<>>
  /\ titles = <<>>
  /\ axes = [kind |-> "none", rows |-> 0, cols |-> 0]
  /\ i = 0
  /\ j = 0
  /\ fetched = <<>>
  /\ drawn = <<>>
  /\ saved = <<>>
  /\ error = "none"
  /\ raised_in = "none"
  /\ returned = FALSE
  /\ result_df = EmptyFrame
  /\ prev_matched = EmptyFrame

\* a few datasets that differ in which labels occur at all
NarrowDatasets ==
  {MakeFrame([r \in Ids |-> r % 2], m, c) :
     m \in {[r \in Ids |-> "paintings"],
            [r \in Ids |-> IF r = 1 THEN "various" ELSE "paintings"]},
     c \in {[r \in Ids |-> "japanese"],
            [r \in Ids |-> IF r = 1 THEN "japanese" ELSE "various"]}}

MediumLists == SeqsUpTo(MediumVocab, MaxClasses)
CultureLists == SeqsUpTo(CultureVocab, MaxClasses)

\* The inputs vary one at a time around a configuration shaped like the
\* notebook's own (several labels per list, several query ids): every
\* dataset, every pair of lists, every set of ids.
Init ==
  /\ \/ InitFrom(MediumDatasets, {<<"paintings", "various">>},
                 {<<"japanese">>}, {{1, 2}})
     \/ InitFrom(CultureDatasets, {<<"paintings">>},
                 {<<"japanese", "various">>}, {{1, 2}})
     \/ InitFrom(NarrowDatasets, MediumLists, CultureLists, {Ids, {1}})
     \/ InitFrom(NarrowDatasets, {<<"paintings">>, <<"various", "paintings">>},
                 {<<"japanese">>}, SUBSET Ids)
  /\ NotRun

\* ------------------------------------------------- the fit cells
FitMedium ==
  /\ pc = "fit_medium"
  /\ medium_cknn' = Fit(small_df, "Classification")
  /\ fits' = [fits EXCEPT !.Classification = @ + 1]
  /\ pc' = "fit_culture"
  /\ UNCHANGED <<regression, inputs, culture_cknn, runs, frames, grid, plot, fetched,
                 drawn, saved, error, raised_in, returned, result_df,
                 prev_matched>>

FitCulture ==
  /\ pc = "fit_culture"
  /\ culture_cknn' = Fit(small_df, "Culture")
  /\ fits' = [fits EXCEPT !.Culture = @ + 1]
  /\ pc' = "demo"
  /\ UNCHANGED <<regression, inputs, medium_cknn, runs, frames, grid, plot, fetched,
                 drawn, saved, error, raised_in, returned, result_df,
                 prev_matched>>

\* ------------------------------------------------- test_all
Labels(g) == IF g = "culture" THEN cultures ELSE mediums

\* test_df = data.where(is_nice_obj("id"))
TestDf(data, test_ids) ==
  [cols |-> data.cols,
   rows |-> SelectSeq(data.rows,
              LAMBDA row : Field(data.cols, row, "id") \in test_ids)]

\* a demo cell that feeds the frame test_all returned back into test_all
RunDemo_OnPreviousResult ==
  /\ pc \in {"demo", "done", "failed"}
  /\ runs < MaxRuns
  /\ runs' = runs + 1
  /\ prev_matched' = results_df_culture
  /\ test_df' = TestDf(IF returned THEN result_df ELSE small_df, selected_ids)
  /\ results_df_medium' = add_matches(mediums, medium_cknn, test_df')
  /\ results_df_culture' = add_matches(cultures, culture_cknn, results_df_medium')
  /\ grid' = "culture"
  /\ pc' = "urls"
  /\ url_arr' = <<>>
  /\ titles' = <<>>
  /\ axes' = [kind |-> "none", rows |-> 0, cols |-> 0]
  /\ i' = 0
  /\ j' = 0
  /\ fetched' = <<>>
  /\ drawn' = <<>>
  /\ saved' = <<>>
  /\ error' = "none"
  /\ raised_in' = "none"
  /\ returned' = FALSE
  /\ UNCHANGED <<regression, inputs, models, result_df>>

\* a test_all that fits the medium model again, on the query rows
RunDemo_Refit ==
  /\ pc \in {"demo", "done", "failed"}
  /\ runs < MaxRuns
  /\ runs' = runs + 1
  /\ prev_matched' = results_df_culture
  /\ test_df' = TestDf(small_df, selected_ids)
  /\ results_df_medium' = add_matches(mediums, medium_cknn, test_df')
  /\ results_df_culture' = add_matches(cultures, culture_cknn, results_df_medium')
  /\ grid' = "culture"
  /\ pc' = "urls"
  /\ url_arr' = <<>>
  /\ titles' = <<>>
  /\ axes' = [kind |-> "none", rows |-> 0, cols |-> 0]
  /\ i' = 0
  /\ j' = 0
  /\ fetched' = <<>>
  /\ drawn' = <<>>
  /\ saved' = <<>>
  /\ error' = "none"
  /\ raised_in' = "none"
  /\ returned' = FALSE
  /\ medium_cknn' = Fit(test_df', "Classification")
  /\ fits' = [fits EXCEPT !.Classification = @ + 1]
  /\ UNCHANGED <<regression, inputs, culture_cknn, result_df>>

\* the demo cell calls test_all(small_df, medium_cknn, culture_cknn,
\* selected_ids, root); test_all runs up to results_df_culture.collect()
RunDemo ==
  /\ pc \in {"demo", "done", "failed"}
  /\ runs < MaxRuns
  /\ runs' = runs + 1
  /\ prev_matched' = results_df_culture
  /\ test_df' = TestDf(small_df, selected_ids)
  /\ results_df_medium' = add_matches(mediums, medium_cknn, test_df')
  /\ results_df_culture' = add_matches(cultures, culture_cknn, results_df_medium')
  /\ grid' = "culture"
  /\ pc' = "urls"
  /\ url_arr' = <<>>
  /\ titles' = <<>>
  /\ axes' = [kind |-> "none", rows |-> 0, cols |-> 0]
  /\ i' = 0
  /\ j' = 0
  /\ fetched' = <<>>
  /\ drawn' = <<>>
  /\ saved' = <<>>
  /\ error' = "none"
  /\ raised_in' = "none"
  /\ returned' = FALSE
  /\ UNCHANGED <<regression, inputs, models, result_df>>

\* original_urls = [row["Thumbnail_Url"] for row in results]
OriginalUrls(frame) ==
  [r \in 1..Len(frame.rows) |-> Field(frame.cols, frame.rows[r], "Thumbnail_Url")]

\* row["Matches_{}".format(label)]
MatchCell(frame, r, label) == Field(frame.cols, frame.rows[r], MatchesCol(label))

\* [0] of an empty list raises IndexError
UrlsFail(frame, labels) ==
  \E n \in 1..Len(labels), r \in 1..Len(frame.rows) :
    MatchCell(frame, r, labels[n]) = <<>>

\* np.array([original_urls] + [[row[Matches_label][0]["value"] ...] ...])
UrlArr(frame, labels) ==
  <<OriginalUrls(frame)>> \o
  [n \in 1..Len(labels) |->
    [r \in 1..Len(frame.rows) |-> MatchCell(frame, r, labels[n])[1].value]]

Filename(g) == IF g = "culture" THEN "matches_by_culture.png"
               ELSE "matches_by_medium.png"

BuildUrlsFail ==
  /\ pc = "urls"
  /\ UrlsFail(results_df_culture, Labels(grid))
  /\ error' = "IndexError"
  /\ raised_in' = "test_all"
  /\ pc' = "failed"
  /\ UNCHANGED <<regression, inputs, models, runs, frames, grid, plot, fetched, drawn,
                 saved, returned, result_df, prev_matched>>

BuildUrls ==
  /\ pc = "urls"
  /\ ~UrlsFail(results_df_culture, Labels(grid))
  /\ url_arr' = UrlArr(results_df_culture, Labels(grid))
  /\ titles' = <<"Original">> \o Labels(grid)
  /\ pc' = "subplots"
  /\ UNCHANGED <<regression, inputs, models, runs, frames, grid, axes, i, j, fetched,
                 drawn, saved, error, raised_in, returned, result_df,
                 prev_matched>>

\* ------------------------------------------------- plot_urls
\* nx, ny = url_arr.shape
Nx(arr) == Len(arr)
Ny(arr) == Len(arr[1])

\* fig, axes = plt.subplots(ny, nx), then the reshape of a 1-d axes array
Axes(ny, nx) ==
  IF ny = 1 /\ nx = 1 THEN [kind |-> "single", rows |-> 0, cols |-> 0]
  ELSE IF ny = 1 \/ nx = 1
       THEN [kind |-> "array", rows |-> 1, cols |-> IF ny = 1 THEN nx ELSE ny]
       ELSE [kind |-> "array", rows |-> ny, cols |-> nx]

\* a figure needs at least one row and one column of subplots
SubplotsFail ==
  /\ pc = "subplots"
  /\ Ny(url_arr) = 0
  /\ error' = "ValueError"
  /\ raised_in' = "plot_urls"
  /\ pc' = "failed"
  /\ UNCHANGED <<regression, inputs, models, runs, frames, grid, plot, fetched, drawn,
                 saved, returned, result_df, prev_matched>>

\* a single Axes object has no shape
ShapeFail ==
  /\ pc = "subplots"
  /\ Ny(url_arr) # 0
  /\ Axes(Ny(url_arr), Nx(url_arr)).kind = "single"
  /\ error' = "AttributeError"
  /\ raised_in' = "plot_urls"
  /\ pc' = "failed"
  /\ UNCHANGED <<regression, inputs, models, runs, frames, grid, plot, fetched, drawn,
                 saved, returned, result_df, prev_matched>>

Subplots ==
  /\ pc = "subplots"
  /\ Ny(url_arr) # 0
  /\ Axes(Ny(url_arr), Nx(url_arr)).kind = "array"
  /\ axes' = Axes(Ny(url_arr), Nx(url_arr))
  /\ i' = 1
  /\ j' = 1
  /\ pc' = "cell"
  /\ UNCHANGED <<regression, inputs, models, runs, frames, grid, url_arr, titles, fetched,
                 drawn, saved, error, raised_in, returned, result_df,
                 prev_matched>>

\* axes[j, i] outside the axes array raises IndexError
AxisFail ==
  /\ pc = "cell"
  /\ ~(j <= axes.rows /\ i <= axes.cols)
  /\ error' = "IndexError"
  /\ raised_in' = "plot_urls"
  /\ pc' = "failed"
  /\ UNCHANGED <<regression, inputs, models, runs, frames, grid, plot, fetched, drawn,
                 saved, returned, result_df, prev_matched>>

\* the loop indices after cell (i, j): j runs inside i
NextCell(ci, cj, arr) ==
  IF cj < Ny(arr) THEN [i |-> ci, j |-> cj + 1, pc |-> "cell"]
  ELSE IF ci < Nx(arr) THEN [i |-> ci + 1, j |-> 1, pc |-> "cell"]
  ELSE [i |-> ci, j |-> cj, pc |-> "save"]

\* a plot_img call on axes[i, j]
PlotImg_Transposed ==
  /\ pc = "cell"
  /\ j <= axes.rows /\ i <= axes.cols
  /\ fetched' = Append(fetched, [grid |-> grid, url |-> url_arr[i][j], ok |-> TRUE])
  /\ drawn' = Append(drawn, [grid |-> grid, row |-> i, col |-> j,
                             url |-> url_arr[i][j],
                             title |-> IF j = 1 THEN titles[i] ELSE "None"])
  /\ i' = NextCell(i, j, url_arr).i
  /\ j' = NextCell(i, j, url_arr).j
  /\ pc' = NextCell(i, j, url_arr).pc
  /\ UNCHANGED <<regression, inputs, models, runs, frames, grid, url_arr, titles, axes,
                 saved, error, raised_in, returned, result_df, prev_matched>>

\* plot_img(axes[j, i], url_arr[i, j], titles[i] if j == 0 else None)
\* when requests.get and Image.open succeed
PlotImg ==
  /\ pc = "cell"
  /\ j <= axes.rows /\ i <= axes.cols
  /\ fetched' = Append(fetched, [grid |-> grid, url |-> url_arr[i][j], ok |-> TRUE])
  /\ drawn' = Append(drawn, [grid |-> grid, row |-> j, col |-> i,
                             url |-> url_arr[i][j],
                             title |-> IF j = 1 THEN titles[i] ELSE "None"])
  /\ i' = NextCell(i, j, url_arr).i
  /\ j' = NextCell(i, j, url_arr).j
  /\ pc' = NextCell(i, j, url_arr).pc
  /\ UNCHANGED <<regression, inputs, models, runs, frames, grid, url_arr, titles, axes,
                 saved, error, raised_in, returned, result_df, prev_matched>>

\* a fetch failure that is caught and skipped: the loop goes on
FetchFailure_Swallowed ==
  [pc |-> NextCell(i, j, url_arr).pc, error |-> "FetchError",
   raised_in |-> "plot_img", i |-> NextCell(i, j, url_arr).i,
   j |-> NextCell(i, j, url_arr).j, drawn |-> drawn]

\* the outcome of a failed fetch or decode: the exception leaves plot_img,
\* plot_urls and test_all
FetchFailure ==
  [pc |-> "failed", error |-> "FetchError", raised_in |-> "plot_img",
   i |-> i, j |-> j, drawn |-> drawn]

\* plot_img when requests.get or Image.open raises
PlotImgFail ==
  /\ pc = "cell"
  /\ j <= axes.rows /\ i <= axes.cols
  /\ fetched' = Append(fetched, [grid |-> grid, url |-> url_arr[i][j], ok |-> FALSE])
  /\ pc' = FetchFailure.pc
  /\ error' = FetchFailure.error
  /\ raised_in' = FetchFailure.raised_in
  /\ i' = FetchFailure.i
  /\ j' = FetchFailure.j
  /\ drawn' = FetchFailure.drawn
  /\ UNCHANGED <<regression, inputs, models, runs, frames, grid, url_arr, titles, axes,
                 saved, returned, result_df, prev_matched>>

\* plt.savefig(filename), then test_all goes on to the medium grid or returns
SaveFig ==
  /\ pc = "save"
  /\ saved' = Append(saved, Filename(grid))
  /\ grid' = IF grid = "culture" THEN "medium" ELSE grid
  /\ pc' = IF grid = "culture" THEN "urls" ELSE "return"
  /\ UNCHANGED <<regression, inputs, models, runs, frames, plot, fetched, drawn, error,
                 raised_in, returned, result_df, prev_matched>>

\* return results_df_culture, assigned to result_df by the demo cell
Return ==
  /\ pc = "return"
  /\ returned' = TRUE
  /\ result_df' = results_df_culture
  /\ pc' = "done"
  /\ UNCHANGED <<regression, inputs, models, runs, frames, grid, plot, fetched, drawn,
                 saved, error, raised_in, prev_matched>>

Next ==
  \/ FitMedium
  \/ FitCulture
  \/ RunDemo
  \/ BuildUrlsFail
  \/ BuildUrls
  \/ SubplotsFail
  \/ ShapeFail
  \/ Subplots
  \/ AxisFail
  \/ PlotImg
  \/ PlotImgFail
  \/ SaveFig
  \/ Return

Spec == Init /\ [][Next]_vars

\* ------------------------------------------------- the regression notebook
Houses == 1..NumHouses
Targets == {0, 1}        \* house prices
Predictions == {0, 1}    \* what a fitted regressor can answer

\* the housing data: a target and the feature f0, which tells the houses
\* apart (the columns f1.. add nothing to it and are left out)
Housing(target) == [h \in Houses |-> [target |-> target[h], f0 |-> h]]

\* df.randomSplit: every row goes to exactly one part, in df's order
randomSplit(frame, test) ==
  LET InTrain(r) == r.f0 \notin test
      InTest(r) == r.f0 \in test
  IN <<SelectSeq(frame, InTrain), SelectSeq(frame, InTest)>>

\* featurizer.transform(frame)["target", "features"]: row by row; the two
\* featurizers write different vectors for the same house
Featurize(by, frame) ==
  [r \in 1..Len(frame) |->
     [target |-> frame[r].target, features |-> <<by, frame[r].f0>>]]

\* fit: the learner is outside the notebook; any function of the features
Models == [Houses -> Predictions]

\* model.transform(frame): row by row, frame's columns and the prediction
Predict(model, frame) ==
  [r \in 1..Len(frame) |->
     [target |-> frame[r].target, features |-> frame[r].features,
      prediction |-> model[frame[r].features[2]]]]

Abs(x) == IF x < 0 THEN -x ELSE x

\* sums over the rows of a frame of predictions
RECURSIVE ErrorSums(_)
ErrorSums(frame) ==
  IF frame = <<>> THEN [n |-> 0, se |-> 0, ae |-> 0, t |-> 0, tt |-> 0]
  ELSE LET r == Head(frame)
           e == r.target - r.prediction
           rest == ErrorSums(Tail(frame))
       IN [n |-> rest.n + 1, se |-> rest.se + e * e, ae |-> rest.ae + Abs(e),
           t |-> rest.t + r.target, tt |-> rest.tt + r.target * r.target]

\* ComputeModelStatistics(evaluationMetric = "regression").transform: one
\* row of four metrics. A quotient is kept as <<numerator, denominator>>;
\* the root mean squared error is the root of the quotient it holds.
ComputeModelStatistics(frame) ==
  LET s == ErrorSums(frame)
      sst == s.n * s.tt - s.t * s.t     \* n times the total sum of squares
  IN <<[mean_squared_error |-> <<s.se, s.n>>,
        root_mean_squared_error |-> <<s.se, s.n>>,
        R2 |-> <<sst - s.n * s.se, sst>>,
        mean_absolute_error |-> <<s.ae, s.n>>]>>

\* frame.insert(0, "model", labels)
InsertModel(frame, labels) ==
  [r \in 1..Len(frame) |-> [model |-> labels[r]] @@ frame[r]]

\* pd.concat([a, b], ignore_index = True)
concat(a, b) == a \o b

LoadData ==
  /\ reg_pc = "load"
  /\ \E target \in [Houses -> Targets] : california_df' = Housing(target)
  /\ reg_pc' = "split"
  /\ UNCHANGED <<matching, train_data, test_data, lr_train_data, lr_test_data,
                 lr_model, lr_predictions, results, vw_train_data,
                 vw_test_data, vw_model, vw_predictions, lg_model,
                 lg_predictions>>

Split ==
  /\ reg_pc = "split"
  /\ \E test \in SUBSET Houses :
       /\ train_data' = randomSplit(california_df, test)[1]
       /\ test_data' = randomSplit(california_df, test)[2]
  /\ reg_pc' = "lr"
  /\ UNCHANGED <<matching, california_df, lr_train_data, lr_test_data,
                 lr_model, lr_predictions, results, vw_train_data,
                 vw_test_data, vw_model, vw_predictions, lg_model,
                 lg_predictions>>

\* the VectorAssembler cell and the LinearRegression cell
LrFit ==
  /\ reg_pc = "lr"
  /\ lr_train_data' = Featurize("assembled", train_data)
  /\ lr_test_data' = Featurize("assembled", test_data)
  /\ lr_model' \in Models
  /\ lr_predictions' = Predict(lr_model', lr_test_data')
  /\ reg_pc' = "lr_metrics"
  /\ UNCHANGED <<matching, california_df, train_data, test_data, results,
                 vw_train_data, vw_test_data, vw_model, vw_predictions,
                 lg_model, lg_predictions>>

LrMetrics ==
  /\ reg_pc = "lr_metrics"
  /\ results' = InsertModel(ComputeModelStatistics(lr_predictions),
                            <<"Spark MLlib - Linear Regression">>)
  /\ reg_pc' = "vw"
  /\ UNCHANGED <<matching, california_df, train_data, test_data,
                 lr_train_data, lr_test_data, lr_model, lr_predictions,
                 vw_train_data, vw_test_data, vw_model, vw_predictions,
                 lg_model, lg_predictions>>

\* the VowpalWabbitFeaturizer cell and the VowpalWabbitRegressor cell
VwFit ==
  /\ reg_pc = "vw"
  /\ vw_train_data' = Featurize("hashed", train_data)
  /\ vw_test_data' = Featurize("hashed", test_data)
  /\ vw_model' \in Models
  /\ vw_predictions' = Predict(vw_model', vw_test_data')
  /\ reg_pc' = "vw_metrics"
  /\ UNCHANGED <<matching, california_df, train_data, test_data,
                 lr_train_data, lr_test_data, lr_model, lr_predictions,
                 results, lg_model, lg_predictions>>

VwMetrics ==
  /\ reg_pc = "vw_metrics"
  /\ LET vw_result == InsertModel(ComputeModelStatistics(vw_predictions),
                                  <<"Vowpal Wabbit">>)
     IN results' = concat(results, vw_result)
  /\ reg_pc' = "lg"
  /\ UNCHANGED <<matching, california_df, train_data, test_data,
                 lr_train_data, lr_test_data, lr_model, lr_predictions,
                 vw_train_data, vw_test_data, vw_model, vw_predictions,
                 lg_model, lg_predictions>>

\* the LightGBMRegressor cell: fitted on lr_train_data, run on lr_test_data
LgFit ==
  /\ reg_pc = "lg"
  /\ lg_model' \in Models
  /\ lg_predictions' = Predict(lg_model', lr_test_data)
  /\ reg_pc' = "lg_metrics"
  /\ UNCHANGED <<matching, california_df, train_data, test_data,
                 lr_train_data, lr_test_data, lr_model, lr_predictions,
                 results, vw_train_data, vw_test_data, vw_model,
                 vw_predictions>>

\* the copy-and-paste slip: the statistics of the baseline's predictions
LgMetrics_OnLrPredictions ==
  /\ reg_pc = "lg_metrics"
  /\ LET lg_result == InsertModel(ComputeModelStatistics(lr_predictions),
                                  <<"LightGBM">>)
     IN results' = concat(results, lg_result)
  /\ reg_pc' = "done"
  /\ UNCHANGED <<matching, california_df, train_data, test_data,
                 lr_train_data, lr_test_data, lr_model, lr_predictions,
                 vw_train_data, vw_test_data, vw_model, vw_predictions,
                 lg_model, lg_predictions>>

LgMetrics ==
  /\ reg_pc = "lg_metrics"
  /\ LET lg_result == InsertModel(ComputeModelStatistics(lg_predictions),
                                  <<"LightGBM">>)
     IN results' = concat(results, lg_result)
  /\ reg_pc' = "done"
  /\ UNCHANGED <<matching, california_df, train_data, test_data,
                 lr_train_data, lr_test_data, lr_model, lr_predictions,
                 vw_train_data, vw_test_data, vw_model, vw_predictions,
                 lg_model, lg_predictions>>

\* the regression notebook runs next to a matching notebook that is left
\* as opened
InitRegression ==
  /\ InitFrom({MakeFrame([r \in Ids |-> 0], [r \in Ids |-> "paintings"],
                         [r \in Ids |-> "japanese"])},
              {<<"paintings">>}, {<<"japanese">>}, {{1}})
  /\ NotRun

NextRegression ==
  \/ LoadData
  \/ Split
  \/ LrFit
  \/ LrMetrics
  \/ VwFit
  \/ VwMetrics
  \/ LgFit
  \/ LgMetrics

SpecRegression == InitRegression /\ [][NextRegression]_vars

\* ------------------------------------------------- properties
\* the two calls of add_matches that test_all makes
Calls ==
  <<[classes |-> mediums, cknn |-> medium_cknn,
     in |-> test_df, out |-> results_df_medium],
    [classes |-> cultures, cknn |-> culture_cknn,
     in |-> results_df_medium, out |-> results_df_culture]>>

\* test_all has just made its two calls of add_matches
JustMatched == pc = "urls" /\ grid = "culture"

Range(seq) == {seq[p] : p \in 1..Len(seq)}

MatchCols(classes) == [n \in 1..Len(classes) |-> MatchesCol(classes[n])]

\* the value a call stored for row r under its n-th condition: the n-th of
\* the columns the call appended
Stored(c, r, n) == c.out.rows[r][Len(c.out.cols) - Len(c.classes) + n]

\* the index entries that carry the call's n-th label
Carriers(c, n) ==
  {p \in 1..Len(c.cknn.index) : c.cknn.index[p].label = c.classes[n]}

RowFeatures(c, r) == Field(c.out.cols, c.out.rows[r], "Norm_Features")

Min(a, b) == IF a <= b THEN a ELSE b

\* C1 as stated: the columns of add_matches(classes, cknn, df) are df's
\* columns followed by Matches_<label> for each label in input order, and
\* nothing else.
C1_ExactlyNColumns ==
  JustMatched =>
    \A c \in Range(Calls) : c.out.cols = c.in.cols \o MatchCols(c.classes)

\* C1 amended: the columns of add_matches(classes, cknn, df) are df's
\* columns, then the helper column conditioner when classes is not empty and
\* df has no such column, then Matches_<label> for each label in input order.
C1_ColumnsWithConditioner ==
  JustMatched =>
    \A c \in Range(Calls) :
      c.out.cols =
        c.in.cols
        \o (IF c.classes # <<>> /\ "conditioner" \notin Range(c.in.cols)
            THEN <<"conditioner">> ELSE <<>>)
        \o MatchCols(c.classes)

C1_Witness ==
  /\ JustMatched
  /\ Len(mediums) = 2
  /\ mediums[1] = mediums[2]
  /\ Len(cultures) = 2
  /\ cultures[1] # cultures[2]
  /\ Len(results_df_culture.rows) >= 2
  /\ Len(results_df_culture.cols) = Len(BaseCols) + 5

\* C2: every match stored for a row under a condition is an index entry that
\* carries the condition's label, at its distance from the row's embedding;
\* the result holds min(k, number of carriers) distinct entries, and no
\* carrier left out is strictly closer than one that is returned.
C2_NearestWithLabel ==
  JustMatched =>
    \A c \in Range(Calls) :
      \A n \in 1..Len(c.classes), r \in 1..Len(c.out.rows) :
        LET cell == Stored(c, r, n)
            index == c.cknn.index
            q == RowFeatures(c, r)
        IN /\ Len(cell) = Min(K, Cardinality(Carriers(c, n)))
           /\ \A e \in 1..Len(cell) :
                /\ cell[e].label = c.classes[n]
                /\ \E p \in Carriers(c, n) :
                     /\ index[p].value = cell[e].value
                     /\ cell[e].distance = Dist(q, index[p].features)
           /\ \A e, f \in 1..Len(cell) : e # f => cell[e].value # cell[f].value
           /\ \A p \in Carriers(c, n) :
                (\A e \in 1..Len(cell) : cell[e].value # index[p].value)
                => \A e \in 1..Len(cell) :
                     Dist(q, index[p].features) >= cell[e].distance

\* a request with more carriers than k, one of them left out and farther
\* away than a returned one, and a non-carrier closer than a returned one
C2_Witness ==
  /\ JustMatched
  /\ \E c \in Range(Calls) :
       \E n \in 1..Len(c.classes), r \in 1..Len(c.out.rows) :
         LET cell == Stored(c, r, n)
             index == c.cknn.index
             q == RowFeatures(c, r)
         IN /\ Len(cell) >= 1
            /\ Cardinality(Carriers(c, n)) > Len(cell)
            /\ \E p \in Carriers(c, n) :
                 Dist(q, index[p].features) > cell[1].distance
            /\ n >= 2

\* C3: every stored Match Result has at most k entries, in order of
\* non-decreasing distance.
C3_AtMostKSorted ==
  JustMatched =>
    \A c \in Range(Calls) :
      \A n \in 1..Len(c.classes), r \in 1..Len(c.out.rows) :
        LET cell == Stored(c, r, n)
        IN /\ Len(cell) <= K
           /\ \A e \in 1..(Len(cell) - 1) :
                cell[e].distance <= cell[e + 1].distance

\* a full result whose distances differ, with more carriers than k
C3_Witness ==
  /\ JustMatched
  /\ \E c \in Range(Calls) :
       \E n \in 1..Len(c.classes), r \in 1..Len(c.out.rows) :
         LET cell == Stored(c, r, n)
         IN /\ Len(cell) = K
            /\ Len(cell) >= 2
            /\ cell[1].distance < cell[Len(cell)].distance
            /\ Cardinality(Carriers(c, n)) > K

\* C4: a condition that no index entry carries stores the empty Match
\* Result for every query row; the call still returns every query row with
\* one column per condition, and the conditions that have carriers hold
\* their matches.
C4_NoCarrierGivesEmpty ==
  JustMatched =>
    \A c \in Range(Calls) :
      /\ Len(c.out.rows) = Len(c.in.rows)
      /\ \A n \in 1..Len(c.classes) :
           /\ c.out.cols[Len(c.out.cols) - Len(c.classes) + n]
                = MatchesCol(c.classes[n])
           /\ \A r \in 1..Len(c.out.rows) :
                (Stored(c, r, n) = <<>>) <=> (Carriers(c, n) = {})

\* a call with a condition nobody carries before one that has carriers
C4_Witness ==
  /\ JustMatched
  /\ \E c \in Range(Calls) :
       /\ Len(c.out.rows) >= 2
       /\ Len(c.classes) = 2
       /\ Carriers(c, 1) = {}
       /\ Carriers(c, 2) # {}
       /\ \A r \in 1..Len(c.out.rows) :
            Stored(c, r, 1) = <<>> /\ Stored(c, r, 2) # <<>>

\* C5 as stated: test_all never fails while it extracts the first match of
\* a cell; an empty Match Result is handled and the run goes on.
C5_EmptyMatchHandled ==
  ~(pc = "failed" /\ raised_in = "test_all" /\ error = "IndexError")

\* the rows of data that test_all is asked for
QueryRows == {s \in 1..Len(small_df.rows) :
                Field(small_df.cols, small_df.rows[s], "id") \in selected_ids}

\* C6: test_df and the frames both add_matches calls return have exactly one
\* row per entity of data whose id is in test_ids, in the order of data, each
\* with the entity's own fields unchanged in data's columns.
C6_RowsPreserved ==
  JustMatched =>
    \A frame \in {test_df, results_df_medium, results_df_culture} :
      /\ Len(frame.rows) = Cardinality(QueryRows)
      /\ SubSeq(frame.cols, 1, Len(small_df.cols)) = small_df.cols
      /\ \A r \in 1..Len(frame.rows) :
           \E s \in QueryRows :
             /\ SubSeq(frame.rows[r], 1, Len(small_df.cols)) = small_df.rows[s]
             /\ Cardinality({t \in QueryRows : t < s}) = r - 1

\* several query rows out of a larger dataset, one of them without a match
\* under some condition
C6_Witness ==
  /\ JustMatched
  /\ Cardinality(QueryRows) = 2
  /\ Len(small_df.rows) = 3
  /\ 1 \notin selected_ids
  /\ \E n \in 1..Len(mediums) : Stored(Calls[1], 1, n) = <<>>

C8_FittedOnceNeverChanged ==
  /\ [](runs >= 1 =>
          /\ fits = [Classification |-> 1, Culture |-> 1]
          /\ medium_cknn = Fit(small_df, "Classification")
          /\ culture_cknn = Fit(small_df, "Culture"))
  /\ [][pc \notin {"fit_medium", "fit_culture"} =>
          UNCHANGED <<df, small_df, medium_cknn, culture_cknn, fits>>]_vars

\* two whole executions of test_all over a non-empty index
C8_Witness ==
  /\ runs = 2
  /\ pc = "done"
  /\ Len(medium_cknn.index) >= 2
  /\ Len(results_df_culture.rows) >= 1

\* the cell drawn last
LastDrawn == drawn[Len(drawn)]

\* the url test_all puts in the grid for query row q under the n-th entry
\* of <<"Original">> \o labels
GridUrl(g, q, n) ==
  IF n = 1
  THEN Field(results_df_culture.cols, results_df_culture.rows[q], "Thumbnail_Url")
  ELSE MatchCell(results_df_culture, q, Labels(g)[n - 1])[1].value

\* C9 as stated: the grid has one column per query entity and one row per
\* (original + each condition); the cell in row r, column c shows query
\* entity c under the r-th of (original, conditions).
C9_ColumnPerQuery ==
  drawn # <<>> =>
    /\ LastDrawn.col <= Len(results_df_culture.rows)
    /\ LastDrawn.row <= 1 + Len(Labels(LastDrawn.grid))
    /\ LastDrawn.url = GridUrl(LastDrawn.grid, LastDrawn.col, LastDrawn.row)

\* C9 amended: the grid has one row per query entity and one column per
\* (original + each condition); the cell in row r, column c shows query
\* entity r under the c-th of (original, conditions), and a grid that is
\* about to be saved has each of these cells exactly once.
C9_RowPerQuery ==
  /\ drawn # <<>> =>
       /\ LastDrawn.row <= Len(results_df_culture.rows)
       /\ LastDrawn.col <= 1 + Len(Labels(LastDrawn.grid))
       /\ LastDrawn.url = GridUrl(LastDrawn.grid, LastDrawn.row, LastDrawn.col)
  /\ pc = "save" =>
       LET cells == {p \in 1..Len(drawn) : drawn[p].grid = grid}
       IN /\ {<<drawn[p].row, drawn[p].col>> : p \in cells}
               = (1..Len(results_df_culture.rows)) \X (1..(1 + Len(Labels(grid))))
          /\ Cardinality(cells)
               = Len(results_df_culture.rows) * (1 + Len(Labels(grid)))

\* a finished grid of two query rows by three columns whose matches differ
\* from row to row
C9_Witness ==
  /\ pc = "save"
  /\ grid = "culture"
  /\ Len(results_df_culture.rows) = 2
  /\ Len(cultures) = 2
  /\ GridUrl(grid, 1, 2) # GridUrl(grid, 2, 2)
  /\ GridUrl(grid, 1, 2) # GridUrl(grid, 1, 3)

\* C10: when a fetch or decode fails, the run has ended with that failure:
\* the failed fetch is the last one and the only failed one, every earlier
\* fetch drew its cell, nothing is saved for the grid in hand, no frame is
\* returned, and a failure in the culture grid leaves the medium grid
\* untouched.
C10_FetchFailureAborts ==
  error = "FetchError" =>
    /\ pc = "failed"
    /\ ~returned
    /\ fetched # <<>>
    /\ \A p \in 1..Len(fetched) : fetched[p].ok <=> p < Len(fetched)
    /\ Len(drawn) = Len(fetched) - 1
    /\ fetched[Len(fetched)].grid = grid
    /\ Filename(grid) \notin Range(saved)
    /\ grid = "culture" =>
         /\ saved = <<>>
         /\ \A p \in 1..Len(fetched) : fetched[p].grid = "culture"

\* a failure in the culture grid after some cells were drawn, with cells
\* still to come
C10_Witness ==
  /\ error = "FetchError"
  /\ grid = "culture"
  /\ Len(drawn) >= 2
  /\ NextCell(i, j, url_arr).pc = "cell"
  /\ mediums # <<>>

\* C11 as stated: for every label of a grid's list and every query row, the
\* value test_all reads from the column Matches_<label> is the Match Result
\* that the grid's own add_matches call stored for that label, whether the
\* label is repeated in the list or also occurs in the other list.
C11_ColumnReadIsOwnRequest ==
  JustMatched =>
    \A g \in 1..2 :
      \A n \in 1..Len(Calls[g].classes), r \in 1..Len(results_df_culture.rows) :
        MatchCell(results_df_culture, r, Calls[g].classes[n]) = Stored(Calls[g], r, n)

\* C12 as stated: for a url array with nx >= 1 and ny >= 1 plot_urls raises
\* nothing of its own, and when it reaches savefig every cell (i, j) has been
\* drawn exactly once, on row j and column i of the ny-by-nx axes, with
\* titles[i] on the cells of the first row and no title elsewhere.
C12_EveryCellOnItsAxis ==
  /\ ~(raised_in = "plot_urls" /\ Nx(url_arr) >= 1 /\ Ny(url_arr) >= 1)
  /\ pc = "save" =>
       LET cells == {p \in 1..Len(drawn) : drawn[p].grid = grid}
       IN /\ {<<drawn[p].col, drawn[p].row>> : p \in cells}
               = (1..Nx(url_arr)) \X (1..Ny(url_arr))
          /\ Cardinality(cells) = Nx(url_arr) * Ny(url_arr)
          /\ \A p \in cells :
               /\ drawn[p].url = url_arr[drawn[p].col][drawn[p].row]
               /\ drawn[p].title =
                    IF drawn[p].row = 1 THEN titles[drawn[p].col] ELSE "None"

\* the label column of the comparison table
ModelColumn == [r \in 1..Len(results) |-> results[r].model]

\* the rows of the test split that a frame of predictions was made on
SplitOf(frame) ==
  [r \in 1..Len(frame) |->
     [target |-> frame[r].target, f0 |-> frame[r].features[2]]]

EvaluatedStep == reg_pc \in {"lr_metrics", "vw_metrics", "lg_metrics"}

StepLabel ==
  CASE reg_pc = "lr_metrics" -> "Spark MLlib - Linear Regression"
    [] reg_pc = "vw_metrics" -> "Vowpal Wabbit"
    [] reg_pc = "lg_metrics" -> "LightGBM"

====
